---- MODULE Spec2Model ----
(***************************************************************************)
(* ceil-dlp: the pre-call hook of CeilDLPHandler (middleware.py), the text *)
(* redaction engine (redaction.py) and the detection adapters they call.   *)
(*                                                                         *)
(* Text is a sequence of tokens; offsets are 0-based token offsets and     *)
(* slices are half-open, as Python's str offsets and slices are.  Python's *)
(* None is the string "None"; a missing dict key is the string "absent".   *)
(***************************************************************************)
EXTENDS Naturals, Sequences, FiniteSets

VARIABLES config, call, kwargs, ret, audit_log

vars == <<config, call, kwargs, ret, audit_log>>

(***************************************************************************)
(* Bounds of the model.                                                    *)
(***************************************************************************)
\* the largest number of messages in one request
MaxMsgs == 2

(***************************************************************************)
(* Python primitives.                                                      *)
(***************************************************************************)
Min(a, b) == IF a <= b THEN a ELSE b

\* s[a:b] for offsets a, b >= 0
Slice(s, a, b) == SubSeq(s, a + 1, Min(b, Len(s)))

\* s[a:]
SliceFrom(s, a) == SubSeq(s, a + 1, Len(s))

\* sub in s
Contains(s, sub) ==
    \E i \in 0..Len(s) : i + Len(sub) <= Len(s) /\ Slice(s, i, i + Len(sub)) = sub

RECURSIVE Interleave(_, _)
\* the tail of s.replace("", new): every character followed by new
Interleave(s, new) ==
    IF s = <<>> THEN <<>>
    ELSE <<Head(s)>> \o new \o Interleave(Tail(s), new)

RECURSIVE ReplaceScan(_, _, _)
\* s.replace(old, new) for a non-empty old: leftmost, non-overlapping occurrences
ReplaceScan(s, old, new) ==
    IF Len(s) < Len(old) THEN s
    ELSE IF SubSeq(s, 1, Len(old)) = old
         THEN new \o ReplaceScan(SubSeq(s, Len(old) + 1, Len(s)), old, new)
         ELSE <<Head(s)>> \o ReplaceScan(Tail(s), old, new)

\* str.replace(old, new)
Replace(s, old, new) ==
    IF old = <<>> THEN new \o Interleave(s, new) ELSE ReplaceScan(s, old, new)

RECURSIVE Join(_, _)
\* sep.join(parts)
Join(parts, sep) ==
    IF parts = <<>> THEN <<>>
    ELSE IF Len(parts) = 1 THEN parts[1]
    ELSE parts[1] \o sep \o Join(Tail(parts), sep)

RECURSIVE Flatten(_)
\* the concatenation of a sequence of sequences
Flatten(ss) == IF ss = <<>> THEN <<>> ELSE Head(ss) \o Flatten(Tail(ss))

\* the elements of a sequence
Range(s) == {s[i] : i \in 1..Len(s)}

\* [x for x in s if x in keep]
SelectIn(s, keep) == SelectSeq(s, LAMBDA x : x \in keep)

(***************************************************************************)
(* Categories and their names.                                             *)
(***************************************************************************)
PiiTypes == {"email", "url"}

\* PRESIDIO_TO_PII_TYPE, restricted to the entities the model's analyzer reports
PRESIDIO_TO_PII_TYPE ==
    [e \in {"EMAIL_ADDRESS", "URL"} |-> IF e = "EMAIL_ADDRESS" THEN "email" ELSE "url"]

\* pii_type.upper()
Upper(t) == IF t = "email" THEN "EMAIL" ELSE "URL"

\* f"[REDACTED_{pii_type.upper()}]"
Placeholder(t) == <<"[REDACTED_", Upper(t), "]">>

\* f"[{pii_type}_detected_in_image]"
ImagePlaceholder(t) ==
    IF t = "email" THEN <<"[email_detected_in_image]">> ELSE <<"[url_detected_in_image]">>

(***************************************************************************)
(* Ordered dicts: a sequence of entries [key, val] in insertion order.     *)
(***************************************************************************)
DictKeys(d) == [i \in 1..Len(d) |-> d[i].key]

DictHas(d, k) == \E i \in 1..Len(d) : d[i].key = k

DictGet(d, k) == d[CHOOSE i \in 1..Len(d) : d[i].key = k].val

\* d.setdefault(k, []) followed by d[k].append(v)
DictAppend(d, k, v) ==
    IF DictHas(d, k)
    THEN [i \in 1..Len(d) |->
            IF d[i].key = k THEN [key |-> k, val |-> Append(d[i].val, v)] ELSE d[i]]
    ELSE Append(d, [key |-> k, val |-> <<v>>])

\* if k not in d: d[k] = []; d[k].extend(vs)
DictExtend(d, k, vs) ==
    IF DictHas(d, k)
    THEN [i \in 1..Len(d) |->
            IF d[i].key = k THEN [key |-> k, val |-> d[i].val \o vs] ELSE d[i]]
    ELSE Append(d, [key |-> k, val |-> vs])

(***************************************************************************)
(* Messages.  A message is a bare string or a dict with a role and a       *)
(* content that is None, a string or a list of parts; a part is a text     *)
(* part or an image_url part.  An image stands for its bytes: whether it   *)
(* can be opened and analysed, and the entities the OCR analyser reports.  *)
(***************************************************************************)
NoImage == [fail |-> FALSE, ents |-> <<>>]

TextPart(t) == [type |-> "text", text |-> t, url |-> "absent", image |-> NoImage]

\* {"type": "image_url", "image_url": {"url": "data:image/png;base64,..."}}
ImagePart(img) == [type |-> "image_url", text |-> <<>>, url |-> "data", image |-> img]

\* {"type": "image_url", "image_url": {"url": "https://..."}}
RemoteImagePart == [type |-> "image_url", text |-> <<>>, url |-> "http", image |-> NoImage]

BareStr(t) ==
    [kind |-> "str", role |-> "absent", ctype |-> "absent", text |-> t, parts |-> <<>>]

DictStr(t) ==
    [kind |-> "dict", role |-> "user", ctype |-> "str", text |-> t, parts |-> <<>>]

DictList(ps) ==
    [kind |-> "dict", role |-> "user", ctype |-> "list", text |-> <<>>, parts |-> ps]

DictNone ==
    [kind |-> "dict", role |-> "user", ctype |-> "none", text |-> <<>>, parts |-> <<>>]

\* the text parts one message contributes, empty strings dropped
MsgTextParts(msg) ==
    IF msg.kind = "dict"
    THEN IF msg.ctype = "str" THEN (IF msg.text # <<>> THEN <<msg.text>> ELSE <<>>)
         ELSE IF msg.ctype = "list"
         THEN LET texts == SelectSeq(msg.parts, LAMBDA p : p.type = "text" /\ p.text # <<>>)
              IN  [i \in 1..Len(texts) |-> texts[i].text]
         ELSE <<>>
    ELSE IF msg.text # <<>> THEN <<msg.text>> ELSE <<>>

_extract_text_from_messages(messages) ==
    Join(Flatten([i \in 1..Len(messages) |-> MsgTextParts(messages[i])]), <<" ">>)

\* the images one message contributes: base64 data URLs only
MsgImages(msg) ==
    IF msg.kind = "dict" /\ msg.ctype = "list"
    THEN LET imgs == SelectSeq(msg.parts, LAMBDA p : p.type = "image_url" /\ p.url = "data")
         IN  [i \in 1..Len(imgs) |-> imgs[i].image]
    ELSE <<>>

_extract_images_from_messages(messages) ==
    Flatten([i \in 1..Len(messages) |-> MsgImages(messages[i])])

\* one message of _replace_text_in_messages
\* the loop body as it would be if only the text parts were appended to new_content
ReplaceInMsg_DropsNonText(msg, old_text, new_text) ==
    IF msg.kind = "dict"
    THEN IF msg.ctype = "str"
         THEN [msg EXCEPT !.text = Replace(msg.text, old_text, new_text)]
         ELSE IF msg.ctype = "list"
         THEN [msg EXCEPT !.parts =
                 LET texts == SelectSeq(msg.parts, LAMBDA part : part.type = "text")
                 IN  [i \in 1..Len(texts) |->
                        [texts[i] EXCEPT !.text = Replace(texts[i].text, old_text, new_text)]]]
         ELSE msg
    ELSE [kind |-> "dict", role |-> "absent", ctype |-> "str",
          text |-> Replace(msg.text, old_text, new_text), parts |-> <<>>]

ReplaceInMsg(msg, old_text, new_text) ==
    IF msg.kind = "dict"
    THEN IF msg.ctype = "str"
         THEN [msg EXCEPT !.text = Replace(msg.text, old_text, new_text)]
         ELSE IF msg.ctype = "list"
         THEN [msg EXCEPT !.parts =
                 [i \in 1..Len(msg.parts) |->
                    IF msg.parts[i].type = "text"
                    THEN [msg.parts[i] EXCEPT
                            !.text = Replace(msg.parts[i].text, old_text, new_text)]
                    ELSE msg.parts[i]]]
         ELSE msg
    ELSE [kind |-> "dict", role |-> "absent", ctype |-> "str",
          text |-> Replace(msg.text, old_text, new_text), parts |-> <<>>]

_replace_text_in_messages(messages, old_text, new_text) ==
    [i \in 1..Len(messages) |-> ReplaceInMsg(messages[i], old_text, new_text)]

(***************************************************************************)
(* Detection.                                                              *)
(***************************************************************************)
\* analyzer.analyze(text): an address "j@" "x.com" is an EMAIL_ADDRESS and its
\* domain "x.com" is a URL, so the two spans overlap as Presidio's do
AnalyzeAt(text, i) ==
    (IF i + 1 < Len(text) /\ text[i + 1] = "j@" /\ text[i + 2] = "x.com"
     THEN <<[entity_type |-> "EMAIL_ADDRESS", start |-> i, end |-> i + 2]>> ELSE <<>>)
    \o
    (IF text[i + 1] = "x.com"
     THEN <<[entity_type |-> "URL", start |-> i, end |-> i + 1]>> ELSE <<>>)

Analyze(text) == Flatten([k \in 1..Len(text) |-> AnalyzeAt(text, k - 1)])

RECURSIVE DetectFold(_, _, _)
DetectFold(text, results, detections) ==
    IF results = <<>> THEN detections
    ELSE LET result == Head(results)
             pii_type == PRESIDIO_TO_PII_TYPE[result.entity_type]
             match == [text |-> Slice(text, result.start, result.end),
                       start |-> result.start, end |-> result.end]
         IN  DetectFold(text, Tail(results), DictAppend(detections, pii_type, match))

_detect_with_presidio(text) == DetectFold(text, Analyze(text), <<>>)

\* PIIDetector.detect: the enabled types are visited in the iteration order of a
\* frozenset, which is given here as the sequence order
PIIDetector_detect(enabled_types, order, text) ==
    LET presidio_results == _detect_with_presidio(text)
        all_types == SelectIn(order, enabled_types)
        found == SelectSeq(all_types, LAMBDA t : DictHas(presidio_results, t))
    IN  [i \in 1..Len(found) |-> [key |-> found[i], val |-> DictGet(presidio_results, found[i])]]

RECURSIVE ImageFold(_, _, _)
ImageFold(ents, enabled_types, results) ==
    IF ents = <<>> THEN results
    ELSE LET entity == Head(ents)
             pii_type == PRESIDIO_TO_PII_TYPE[entity.entity_type]
         IN  IF enabled_types # {} /\ pii_type \notin enabled_types
             THEN ImageFold(Tail(ents), enabled_types, results)
             ELSE ImageFold(Tail(ents), enabled_types,
                            DictAppend(results, pii_type,
                                       [text |-> ImagePlaceholder(pii_type),
                                        start |-> entity.start, end |-> entity.end]))

\* an image that cannot be opened or analysed yields {}
detect_pii_in_image(image_data, enabled_types) ==
    IF image_data.fail THEN <<>> ELSE ImageFold(image_data.ents, enabled_types, <<>>)

RECURSIVE MergeDict(_, _)
\* for pii_type, matches in image_detections.items(): detections[pii_type].extend(matches)
MergeDict(detections, image_detections) ==
    IF image_detections = <<>> THEN detections
    ELSE MergeDict(DictExtend(detections, Head(image_detections).key,
                              Head(image_detections).val),
                   Tail(image_detections))

RECURSIVE MergeImages(_, _, _)
MergeImages(detections, images, enabled_types) ==
    IF images = <<>> THEN detections
    ELSE MergeImages(MergeDict(detections, detect_pii_in_image(Head(images), enabled_types)),
                     Tail(images), enabled_types)

(***************************************************************************)
(* Redaction engine.                                                       *)
(***************************************************************************)
\* [match[0] for match in matches]
MatchedTexts(matches) == [i \in 1..Len(matches) |-> matches[i].text]

RECURSIVE RedactedItems(_)
\* redacted_items: the matched texts of every category that has matches
RedactedItems(detections) ==
    IF detections = <<>> THEN <<>>
    ELSE (IF Head(detections).val # <<>>
          THEN <<[key |-> Head(detections).key, val |-> MatchedTexts(Head(detections).val)]>>
          ELSE <<>>)
         \o RedactedItems(Tail(detections))

\* all_matches: (pii_type, match) for every match, in dict order
AllMatches(detections) ==
    Flatten([i \in 1..Len(detections) |->
               [j \in 1..Len(detections[i].val) |->
                  [pii_type |-> detections[i].key, match |-> detections[i].val[j]]]])

RECURSIVE InsertDesc(_, _)
\* x goes after every element whose start is not smaller: the sort is stable
InsertDesc(sorted, x) ==
    IF sorted = <<>> THEN <<x>>
    ELSE IF Head(sorted).match.start >= x.match.start
         THEN <<Head(sorted)>> \o InsertDesc(Tail(sorted), x)
         ELSE <<x>> \o sorted

RECURSIVE InsertAsc(_, _)
InsertAsc(sorted, x) ==
    IF sorted = <<>> THEN <<x>>
    ELSE IF Head(sorted).match.start <= x.match.start
         THEN <<Head(sorted)>> \o InsertAsc(Tail(sorted), x)
         ELSE <<x>> \o sorted

RECURSIVE SortDesc_Ascending(_, _)
\* all_matches.sort(key=start) without reverse=True
SortDesc_Ascending(all_matches, sorted) ==
    IF all_matches = <<>> THEN sorted
    ELSE SortDesc_Ascending(Tail(all_matches), InsertAsc(sorted, Head(all_matches)))

RECURSIVE SortDesc(_, _)
\* all_matches.sort(key=start, reverse=True)
SortDesc(all_matches, sorted) ==
    IF all_matches = <<>> THEN sorted
    ELSE SortDesc(Tail(all_matches), InsertDesc(sorted, Head(all_matches)))

\* redacted_text[:start] + replacement + redacted_text[end:]
ReplaceSpan(redacted_text, pii_type, start, end) ==
    Slice(redacted_text, 0, start) \o Placeholder(pii_type) \o SliceFrom(redacted_text, end)

RECURSIVE ApplyAll(_, _)
ApplyAll(redacted_text, all_matches) ==
    IF all_matches = <<>> THEN redacted_text
    ELSE ApplyAll(ReplaceSpan(redacted_text, Head(all_matches).pii_type,
                              Head(all_matches).match.start, Head(all_matches).match.end),
                  Tail(all_matches))

\* apply_redaction as it would be if the items were read off the text after the
\* replacements instead of being copied before them
apply_redaction_ItemsAfter(text, detections) ==
    LET redacted_text == ApplyAll(text, SortDesc(AllMatches(detections), <<>>))
        nonempty == SelectSeq(detections, LAMBDA e : e.val # <<>>)
    IN  [redacted_text |-> redacted_text,
         redacted_items |->
            [i \in 1..Len(nonempty) |->
               [key |-> nonempty[i].key,
                val |-> [j \in 1..Len(nonempty[i].val) |->
                           Slice(redacted_text, nonempty[i].val[j].start,
                                 nonempty[i].val[j].end)]]]]

apply_redaction(text, detections) ==
    [redacted_text |-> ApplyAll(text, SortDesc(AllMatches(detections), <<>>)),
     redacted_items |-> RedactedItems(detections)]

(***************************************************************************)
(* Policies.  A model identifier and a pattern are sequences of tokens; in *)
(* a pattern ".*" is the wildcard, "." stands for any one character and    *)
(* "[" is an unbalanced bracket, with which the pattern does not compile.  *)
(***************************************************************************)
\* the tokens that are one character long
OneChar == {".", "0", "5"}

RECURSIVE FullMatch(_, _)
\* re.fullmatch of a compiled pattern
FullMatch(model, pattern) ==
    IF pattern = <<>> THEN model = <<>>
    ELSE IF Head(pattern) = ".*"
         THEN \E k \in 0..Len(model) : FullMatch(SliceFrom(model, k), Tail(pattern))
    ELSE IF Head(pattern) = "."
         THEN /\ model # <<>>
              /\ Head(model) \in OneChar
              /\ FullMatch(Tail(model), Tail(pattern))
         ELSE /\ model # <<>>
              /\ Head(model) = Head(pattern)
              /\ FullMatch(Tail(model), Tail(pattern))

RECURSIVE PrefixMatch(_, _)
\* re.match of a compiled pattern: anchored at the start only
PrefixMatch(model, pattern) ==
    IF pattern = <<>> THEN TRUE
    ELSE IF Head(pattern) = ".*"
         THEN \E k \in 0..Len(model) : PrefixMatch(SliceFrom(model, k), Tail(pattern))
    ELSE IF Head(pattern) = "."
         THEN /\ model # <<>>
              /\ Head(model) \in OneChar
              /\ PrefixMatch(Tail(model), Tail(pattern))
         ELSE /\ model # <<>>
              /\ Head(model) = Head(pattern)
              /\ PrefixMatch(Tail(model), Tail(pattern))

\* matches_model using re.match in place of re.fullmatch
matches_model_Match(model, pattern) ==
    /\ "[" \notin Range(pattern)
    /\ PrefixMatch(model, pattern)

\* matches_model(model, pattern): a pattern that does not compile matches nothing
matches_model(model, pattern) ==
    /\ "[" \notin Range(pattern)
    /\ FullMatch(model, pattern)

NoList == [present |-> FALSE, patterns |-> <<>>]

ListOf(ps) == [present |-> TRUE, patterns |-> ps]

NoModels == [present |-> FALSE, allow |-> NoList, block |-> NoList]

NoPolicy == [present |-> FALSE, action |-> "mask", enabled |-> FALSE, models |-> NoModels]

\* config.get_policy(pii_type)
get_policy(cfg, pii_type) == cfg.policies[pii_type]

AnyMatch(model, patterns) == \E i \in 1..Len(patterns) : matches_model(model, patterns[i])

\* _should_apply_policy consulting the allow list before the block list
_should_apply_policy_AllowFirst(policy, model) ==
    IF ~policy.models.present THEN TRUE
    ELSE IF policy.models.allow.patterns # <<>> /\ AnyMatch(model, policy.models.allow.patterns)
         THEN FALSE
    ELSE IF policy.models.block.patterns # <<>> /\ AnyMatch(model, policy.models.block.patterns)
         THEN TRUE
    ELSE ~policy.models.block.present

\* _should_apply_policy whose default is "skip" whenever any list was given
_should_apply_policy_DefaultSkips(policy, model) ==
    IF ~policy.models.present THEN TRUE
    ELSE IF policy.models.block.patterns # <<>> /\ AnyMatch(model, policy.models.block.patterns)
         THEN TRUE
    ELSE IF policy.models.allow.patterns # <<>> /\ AnyMatch(model, policy.models.allow.patterns)
         THEN FALSE
    ELSE ~policy.models.block.present /\ ~policy.models.allow.present

\* _should_apply_policy whose default is "apply" whatever lists were given
_should_apply_policy_DefaultApplies(policy, model) ==
    IF ~policy.models.present THEN TRUE
    ELSE IF policy.models.block.patterns # <<>> /\ AnyMatch(model, policy.models.block.patterns)
         THEN TRUE
    ELSE IF policy.models.allow.patterns # <<>> /\ AnyMatch(model, policy.models.allow.patterns)
         THEN FALSE
    ELSE TRUE

\* _should_apply_policy that reads a missing models field as an empty block list
_should_apply_policy_AbsentSkips(policy, model) ==
    IF ~policy.models.present THEN FALSE
    ELSE IF policy.models.block.patterns # <<>> /\ AnyMatch(model, policy.models.block.patterns)
         THEN TRUE
    ELSE IF policy.models.allow.patterns # <<>> /\ AnyMatch(model, policy.models.allow.patterns)
         THEN FALSE
    ELSE ~policy.models.block.present

\* a loop over a list that ends at the first pattern that does not compile
AnyMatchUntilMalformed(model, patterns) ==
    \E i \in 1..Len(patterns) :
        /\ matches_model(model, patterns[i])
        /\ \A j \in 1..(i - 1) : "[" \notin Range(patterns[j])

\* _should_apply_policy whose loops end at the first pattern that does not compile
_should_apply_policy_StopsAtMalformed(policy, model) ==
    IF ~policy.models.present THEN TRUE
    ELSE IF /\ policy.models.block.patterns # <<>>
            /\ AnyMatchUntilMalformed(model, policy.models.block.patterns)
         THEN TRUE
    ELSE IF /\ policy.models.allow.patterns # <<>>
            /\ AnyMatchUntilMalformed(model, policy.models.allow.patterns)
         THEN FALSE
    ELSE ~policy.models.block.present

_should_apply_policy(policy, model) ==
    IF ~policy.models.present THEN TRUE
    ELSE IF policy.models.block.patterns # <<>> /\ AnyMatch(model, policy.models.block.patterns)
         THEN TRUE
    ELSE IF policy.models.allow.patterns # <<>> /\ AnyMatch(model, policy.models.allow.patterns)
         THEN FALSE
    ELSE ~policy.models.block.present

(***************************************************************************)
(* The audit sink.                                                         *)
(***************************************************************************)
\* audit_logger.log_detection(...)
log_detection(user_id, pii_type, action, redacted_items, request_id, mode) ==
    [user_id |-> user_id, pii_types |-> <<pii_type>>, action |-> action,
     items |-> redacted_items, request_id |-> request_id, mode |-> mode]

\* audit_logger.log_block(...)
log_block(user_id, pii_types, request_id, mode) ==
    [user_id |-> user_id, pii_types |-> pii_types, action |-> "block",
     items |-> <<>>, request_id |-> request_id, mode |-> mode]

(***************************************************************************)
(* The pre-call hook.  A request is [user_id, model, messages, kwargs,     *)
(* text_fails, order]: text_fails says whether the text analyser raises    *)
(* on this request, order is the iteration order of the enabled types.     *)
(* kwargs is [litellm_call_id, messages, extra_headers].                   *)
(***************************************************************************)
\* config.enabled_pii_types, None or empty when the set is empty
EnabledTypes(cfg) ==
    IF cfg.enabled_pii_types = {} THEN PiiTypes ELSE cfg.enabled_pii_types

\* PolicyApplies as it would be without the model-aware check
PolicyApplies_AnyModel(cfg, pii_type, model) ==
    LET policy == get_policy(cfg, pii_type)
    IN  policy.present /\ policy.enabled

\* the policy of a category is enabled and applies to the model
PolicyApplies(cfg, pii_type, model) ==
    LET policy == get_policy(cfg, pii_type)
    IN  /\ policy.present
        /\ policy.enabled
        /\ _should_apply_policy(policy, model)

\* blocked_types of the classification loop
BlockedTypes(cfg, model, detections) ==
    DictKeys(SelectSeq(detections, LAMBDA e :
        PolicyApplies(cfg, e.key, model) /\ get_policy(cfg, e.key).action = "block"))

\* masked_types of the classification loop
MaskedTypes(cfg, model, detections) ==
    SelectSeq(detections, LAMBDA e :
        PolicyApplies(cfg, e.key, model) /\ get_policy(cfg, e.key).action = "mask")

\* kwargs.get("litellm_call_id")
RequestId(kw) == IF kw.litellm_call_id = "absent" THEN "None" ELSE kw.litellm_call_id

\* what the hook leaves behind: whether it raised, the error message it returned (or
\* None), whether the kwargs it returned is None, the caller's kwargs dict as the hook
\* left it, and the audit events it handed to the sink
Outcome(raised, error, ret_none, kw, events) ==
    [raised |-> raised,
     error |-> error,
     ret_none |-> ret_none,
     kwargs |-> kw,
     events |-> events]

NoError == [is_none |-> TRUE, text |-> <<>>]

\* f"Request blocked: Detected sensitive data ({', '.join(blocked_types)})"
BlockMessage(blocked_types) ==
    [is_none |-> FALSE,
     text |-> <<"Request blocked: Detected sensitive data (">>
              \o Join([i \in 1..Len(blocked_types) |-> <<blocked_types[i]>>], <<", ">>)
              \o <<")">>]

\* ObserveBranch as it would be if it logged every detected category
ObserveBranch_LogsAll(cfg, req, detections) ==
    Outcome(FALSE, NoError, FALSE, req.kwargs,
            [i \in 1..Len(detections) |->
               log_detection(req.user_id, detections[i].key, "observe",
                             MatchedTexts(detections[i].val),
                             RequestId(req.kwargs), cfg.mode)])

\* the observe branch
ObserveBranch(cfg, req, detections) ==
    LET applicable == SelectSeq(detections, LAMBDA e : PolicyApplies(cfg, e.key, req.model))
    IN  Outcome(FALSE, NoError, FALSE, req.kwargs,
                [i \in 1..Len(applicable) |->
                   log_detection(req.user_id, applicable[i].key, "observe",
                                 MatchedTexts(applicable[i].val),
                                 RequestId(req.kwargs), cfg.mode)])

\* kwargs["messages"] = modified_messages, when there is something to mask
MaskKwargs(req, text_content, masked_types) ==
    IF masked_types = <<>> THEN req.kwargs
    ELSE [req.kwargs EXCEPT !.messages =
            [present |-> TRUE,
             value |-> _replace_text_in_messages(
                          req.messages, text_content,
                          apply_redaction(text_content, masked_types).redacted_text)]]

\* the mask events, one per entry of redacted_items
MaskEvents(cfg, req, text_content, masked_types) ==
    LET redacted_items == apply_redaction(text_content, masked_types).redacted_items
    IN  [i \in 1..Len(redacted_items) |->
           log_detection(req.user_id, redacted_items[i].key, "mask", redacted_items[i].val,
                         RequestId(req.kwargs), cfg.mode)]

\* the warn events, one per blocked type
WarnEvents(cfg, req, detections, blocked_types) ==
    [i \in 1..Len(blocked_types) |->
       log_detection(req.user_id, blocked_types[i], "warn",
                     MatchedTexts(DictGet(detections, blocked_types[i])),
                     RequestId(req.kwargs), cfg.mode)]

\* headers["X-Ceil-DLP-Warning"] = "violations_detected"
SetWarning(entries) ==
    {e \in entries : e[1] # "X-Ceil-DLP-Warning"}
        \cup {<<"X-Ceil-DLP-Warning", "violations_detected">>}

\* the warn branch: item assignment on an extra_headers that is no dict raises
WarnBranch(cfg, req, text_content, detections) ==
    LET blocked_types == BlockedTypes(cfg, req.model, detections)
        masked_types == MaskedTypes(cfg, req.model, detections)
        kw1 == MaskKwargs(req, text_content, masked_types)
        events == MaskEvents(cfg, req, text_content, masked_types)
                    \o WarnEvents(cfg, req, detections, blocked_types)
    IN  IF blocked_types = <<>> /\ masked_types = <<>>
        THEN Outcome(FALSE, NoError, FALSE, kw1, events)
        ELSE IF kw1.extra_headers.kind = "absent"
        THEN Outcome(FALSE, NoError, FALSE,
                     [kw1 EXCEPT !.extra_headers =
                        [kind |-> "dict", entries |-> SetWarning({})]],
                     events)
        ELSE IF kw1.extra_headers.kind = "dict"
        THEN Outcome(FALSE, NoError, FALSE,
                     [kw1 EXCEPT !.extra_headers.entries = SetWarning(@)],
                     events)
        ELSE Outcome(TRUE, NoError, FALSE, kw1, events)

\* EnforceBranch as it would be if masking were not skipped on a block
EnforceBranch_MasksOnBlock(cfg, req, text_content, detections) ==
    LET blocked_types == BlockedTypes(cfg, req.model, detections)
        masked_types == MaskedTypes(cfg, req.model, detections)
    IN  Outcome(FALSE,
                IF blocked_types # <<>> THEN BlockMessage(blocked_types) ELSE NoError,
                blocked_types # <<>>,
                MaskKwargs(req, text_content, masked_types),
                (IF blocked_types # <<>>
                 THEN <<log_block(req.user_id, blocked_types, RequestId(req.kwargs), cfg.mode)>>
                 ELSE <<>>)
                \o MaskEvents(cfg, req, text_content, masked_types))

\* the enforce branch
EnforceBranch(cfg, req, text_content, detections) ==
    LET blocked_types == BlockedTypes(cfg, req.model, detections)
        masked_types == MaskedTypes(cfg, req.model, detections)
    IN  IF blocked_types # <<>>
        THEN Outcome(FALSE, BlockMessage(blocked_types), TRUE, req.kwargs,
                     <<log_block(req.user_id, blocked_types, RequestId(req.kwargs), cfg.mode)>>)
        ELSE Outcome(FALSE, NoError, FALSE,
                     MaskKwargs(req, text_content, masked_types),
                     MaskEvents(cfg, req, text_content, masked_types))

\* Dispatch as it would be if the short-circuit returned no kwargs, as a block does
Dispatch_ShortCircuitDropsKwargs(cfg, req, text_content, detections) ==
    IF detections = <<>> THEN Outcome(FALSE, NoError, TRUE, req.kwargs, <<>>)
    ELSE IF cfg.mode = "observe" THEN ObserveBranch(cfg, req, detections)
    ELSE IF cfg.mode = "warn" THEN WarnBranch(cfg, req, text_content, detections)
    ELSE EnforceBranch(cfg, req, text_content, detections)

\* Dispatch as it would be if only observe mode were told apart from enforce
Dispatch_WarnEnforces(cfg, req, text_content, detections) ==
    IF detections = <<>> THEN Outcome(FALSE, NoError, FALSE, req.kwargs, <<>>)
    ELSE IF cfg.mode = "observe" THEN ObserveBranch(cfg, req, detections)
    ELSE EnforceBranch(cfg, req, text_content, detections)

\* the dispatch as it would be if the last branch asked for the mode "enforce" and
\* any other mode fell through to the final return
Dispatch_EnforceByName(cfg, req, text_content, detections) ==
    IF detections = <<>> THEN Outcome(FALSE, NoError, FALSE, req.kwargs, <<>>)
    ELSE IF cfg.mode = "observe" THEN ObserveBranch(cfg, req, detections)
    ELSE IF cfg.mode = "warn" THEN WarnBranch(cfg, req, text_content, detections)
    ELSE IF cfg.mode = "enforce" THEN EnforceBranch(cfg, req, text_content, detections)
    ELSE Outcome(FALSE, NoError, FALSE, req.kwargs, <<>>)

\* the mode dispatch on the merged detections
Dispatch(cfg, req, text_content, detections) ==
    IF detections = <<>> THEN Outcome(FALSE, NoError, FALSE, req.kwargs, <<>>)
    ELSE IF cfg.mode = "observe" THEN ObserveBranch(cfg, req, detections)
    ELSE IF cfg.mode = "warn" THEN WarnBranch(cfg, req, text_content, detections)
    ELSE EnforceBranch(cfg, req, text_content, detections)

\* detect_with_presidio raises RuntimeError when the analyser fails
TextDetectionRaises(cfg, req) ==
    /\ _extract_text_from_messages(req.messages) # <<>>
    /\ SelectIn(req.order, EnabledTypes(cfg)) # <<>>
    /\ req.text_fails

\* the detections of the text and of every image, merged
MergedDetections(cfg, req) ==
    LET text_content == _extract_text_from_messages(req.messages)
        images == _extract_images_from_messages(req.messages)
        detections == IF text_content # <<>>
                      THEN PIIDetector_detect(EnabledTypes(cfg), req.order, text_content)
                      ELSE <<>>
    IN  MergeImages(detections, images, cfg.enabled_pii_types)

_pre_call_hook(cfg, req) ==
    IF TextDetectionRaises(cfg, req)
    THEN Outcome(TRUE, NoError, FALSE, req.kwargs, <<>>)
    ELSE Dispatch(cfg, req, _extract_text_from_messages(req.messages),
                  MergedDetections(cfg, req))

\* try: return self._pre_call_hook(...)  except Exception: return None, kwargs
async_pre_call_hook(cfg, req) ==
    LET out == _pre_call_hook(cfg, req)
    IN  IF out.raised THEN [out EXCEPT !.error = NoError, !.ret_none = FALSE] ELSE out

\* the hook reaches one of its two calls of _replace_text_in_messages
MaskingRuns(cfg, req) ==
    LET detections == MergedDetections(cfg, req)
    IN  /\ ~TextDetectionRaises(cfg, req)
        /\ detections # <<>>
        /\ cfg.mode # "observe"
        /\ MaskedTypes(cfg, req.model, detections) # <<>>
        /\ cfg.mode = "warn" \/ BlockedTypes(cfg, req.model, detections) = <<>>

\* the caller's message as it would be left if new_msg were the message itself and
\* not a copy of it
CallerMsgAfter_InPlace(msg, old_text, new_text) ==
    LET objects == [caller |-> msg, new_msg |-> msg]
        written == IF msg.kind = "dict"
                   THEN [caller |-> ReplaceInMsg(msg, old_text, new_text),
                         new_msg |-> ReplaceInMsg(msg, old_text, new_text)]
                   ELSE objects
    IN  written.caller

\* the caller's message after _replace_text_in_messages handled it: new_msg = msg.copy(),
\* new_content = [] and new_item = item.copy() are fresh objects, and every assignment
\* of the function goes to one of them
CallerMsgAfter(msg, old_text, new_text) ==
    LET objects == [caller |-> msg, new_msg |-> msg]
        written == [objects EXCEPT !.new_msg = ReplaceInMsg(msg, old_text, new_text)]
    IN  written.caller

\* the caller's message list after the hook returned
CallerMessagesAfter(cfg, req) ==
    LET text_content == _extract_text_from_messages(req.messages)
        masked_types == MaskedTypes(cfg, req.model, MergedDetections(cfg, req))
    IN  IF MaskingRuns(cfg, req)
        THEN [i \in 1..Len(req.messages) |->
                CallerMsgAfter(req.messages[i], text_content,
                               apply_redaction(text_content, masked_types).redacted_text)]
        ELSE req.messages

(***************************************************************************)
(* The configurations and requests the model draws from.                   *)
(***************************************************************************)
Modes == {"observe", "warn", "enforce"}

Models == {<<"openai/", "gpt-4">>, <<"self-hosted/", "llama2">>}

\* models: no rules, an allow list only, a block list only
AllowSelfHosted ==
    [present |-> TRUE, allow |-> ListOf(<< <<"self-hosted/", ".*">> >>), block |-> NoList]

BlockOpenAI ==
    [present |-> TRUE, allow |-> NoList, block |-> ListOf(<< <<"openai/", ".*">> >>)]

PolicyChoices ==
    {NoPolicy,
     [present |-> TRUE, action |-> "mask", enabled |-> FALSE, models |-> NoModels],
     [present |-> TRUE, action |-> "block", enabled |-> TRUE, models |-> NoModels],
     [present |-> TRUE, action |-> "mask", enabled |-> TRUE, models |-> NoModels],
     [present |-> TRUE, action |-> "block", enabled |-> TRUE, models |-> BlockOpenAI],
     [present |-> TRUE, action |-> "mask", enabled |-> TRUE, models |-> AllowSelfHosted]}

Configs ==
    [mode : Modes,
     policies : [PiiTypes -> PolicyChoices],
     enabled_pii_types : {{}, {"email"}},
     type_order : {<<"email", "url">>, <<"url", "email">>}]

\* an image that cannot be opened, and one in whose OCR text an address is found
BrokenImage == [fail |-> TRUE, ents |-> <<>>]

EmailImage ==
    [fail |-> FALSE, ents |-> <<[entity_type |-> "EMAIL_ADDRESS", start |-> 0, end |-> 1]>>]

\* one message of each shape: a string content with an address (whose domain is also
\* a URL), a string content without sensitive data, a bare string, a None content, and
\* a multi-part content with a text part and three image parts
MsgChoices ==
    {DictStr(<<"j@", "x.com">>),
     DictStr(<<"w">>),
     BareStr(<<"x.com">>),
     DictNone,
     DictList(<<TextPart(<<"x.com">>), ImagePart(BrokenImage), ImagePart(EmailImage),
                RemoteImagePart>>)}

RECURSIVE SeqsUpTo(_, _)
\* the sequences over S of length at most n
SeqsUpTo(S, n) ==
    IF n = 0 THEN {<<>>}
    ELSE LET shorter == SeqsUpTo(S, n - 1)
         IN  shorter \cup {Append(q, x) : q \in shorter, x \in S}

MessageLists == SeqsUpTo(MsgChoices, MaxMsgs)

NoMessages == [present |-> FALSE, value |-> <<>>]

NoHeaders == [kind |-> "absent", entries |-> {}]

\* the kwargs of a request with these messages: a call id only; the messages and
\* a dict of headers; a call id and an extra_headers that is None
KwargsChoices(messages) ==
    {[litellm_call_id |-> "test123", messages |-> NoMessages, extra_headers |-> NoHeaders],
     [litellm_call_id |-> "absent",
      messages |-> [present |-> TRUE, value |-> messages],
      extra_headers |-> [kind |-> "dict", entries |-> {<<"X-Trace", "1">>}]],
     [litellm_call_id |-> "test123", messages |-> NoMessages,
      extra_headers |-> [kind |-> "none", entries |-> {}]]}

Requests ==
    UNION {{[user_id |-> "user1", model |-> m, messages |-> ms, kwargs |-> kw,
             text_fails |-> f] :
               m \in Models, kw \in KwargsChoices(ms), f \in BOOLEAN} :
           ms \in MessageLists}

(***************************************************************************)
(* The state machine: a handler is constructed with a configuration, then  *)
(* serves a request.  call is the request, kwargs the caller's dict after  *)
(* the hook, ret what the hook returned, audit_log the events the sink     *)
(* received.  The handler keeps nothing from one request to the next, so   *)
(* the states after any number of requests are the states after one.       *)
(***************************************************************************)
NoCall ==
    [called |-> FALSE, user_id |-> "None", model |-> <<>>, messages |-> <<>>,
     kwargs |-> [litellm_call_id |-> "absent", messages |-> NoMessages,
                 extra_headers |-> NoHeaders],
     text_fails |-> FALSE, caller_messages |-> <<>>]

Init ==
    /\ config \in Configs
    /\ call = NoCall
    /\ kwargs = NoCall.kwargs
    /\ ret = [raised |-> FALSE, error |-> NoError, ret_none |-> FALSE]
    /\ audit_log = <<>>

\* the request with the detector's iteration order of this handler
WithOrder(cfg, req) ==
    [user_id |-> req.user_id, model |-> req.model, messages |-> req.messages,
     kwargs |-> req.kwargs, text_fails |-> req.text_fails, order |-> cfg.type_order]

AsyncPreCallHook(req) ==
    LET out == async_pre_call_hook(config, WithOrder(config, req))
    IN  /\ req.text_fails => _extract_text_from_messages(req.messages) # <<>>
        /\ call' = [called |-> TRUE, user_id |-> req.user_id, model |-> req.model,
                    messages |-> req.messages, kwargs |-> req.kwargs,
                    text_fails |-> req.text_fails,
                    caller_messages |-> CallerMessagesAfter(config, WithOrder(config, req))]
        /\ kwargs' = out.kwargs
        /\ ret' = [raised |-> out.raised, error |-> out.error, ret_none |-> out.ret_none]
        /\ audit_log' = out.events
        /\ UNCHANGED config

Next ==
    /\ ~call.called
    /\ \E req \in Requests : AsyncPreCallHook(req)

Spec == Init /\ [][Next]_vars

(***************************************************************************)
(* What the properties speak of.                                           *)
(***************************************************************************)
\* the latest request, as the hook saw it
Req == WithOrder(config, call)

TextContent == _extract_text_from_messages(call.messages)

\* the merged detection map of the latest request; none when detection raised
Detected ==
    IF TextDetectionRaises(config, Req) THEN <<>> ELSE MergedDetections(config, Req)

DetectedTypes == Range(DictKeys(Detected))

\* the category's policy exists, is enabled and shouldApply accepts the model
Applicable(t) ==
    /\ config.policies[t].present
    /\ config.policies[t].enabled
    /\ _should_apply_policy(config.policies[t], call.model)

\* the blocked and the masked bucket
BlockedBucket == {t \in DetectedTypes : Applicable(t) /\ config.policies[t].action = "block"}

MaskedBucket == {t \in DetectedTypes : Applicable(t) /\ config.policies[t].action = "mask"}

\* the events of one action about one category
EventsOf(action, t) ==
    {i \in 1..Len(audit_log) : audit_log[i].action = action /\ audit_log[i].pii_types = <<t>>}

EventsWith(action) == {i \in 1..Len(audit_log) : audit_log[i].action = action}

\* the request is allowed and its metadata is returned as it was passed
AllowedUnchanged ==
    /\ ret.error.is_none
    /\ ~ret.ret_none
    /\ kwargs = call.kwargs

(***************************************************************************)
(* C1: the hook returns an error message (a block) if and only if the mode *)
(* is enforce and at least one detected category has an enabled block      *)
(* policy that shouldApply accepts for the model; in observe and warn mode *)
(* the request is never denied.                                            *)
(***************************************************************************)
C1_BlockIffEnforceAndBlockPolicy ==
    call.called =>
        /\ (~ret.error.is_none) <=> (config.mode = "enforce" /\ BlockedBucket # {})
        /\ config.mode \in {"observe", "warn"} => ret.error.is_none

\* an enforce-mode request is denied, and the same bucket would not deny in warn mode
C1_Witness ==
    /\ call.called
    /\ config.mode = "enforce"
    /\ BlockedBucket # {}
    /\ ~ret.error.is_none

(***************************************************************************)
(* C2: in enforce mode with a non-empty blocked bucket the hook emits      *)
(* exactly one block event listing all blocked categories, returns a       *)
(* message naming each of them, emits no mask event and leaves the request *)
(* metadata as it was, also when mask-policy categories were detected.     *)
(***************************************************************************)
C2_BlockLeavesPayload ==
    (call.called /\ config.mode = "enforce" /\ BlockedBucket # {}) =>
        /\ Len(audit_log) = 1
        /\ audit_log[1].action = "block"
        /\ Range(audit_log[1].pii_types) = BlockedBucket
        /\ Len(audit_log[1].pii_types) = Cardinality(BlockedBucket)
        /\ ~ret.error.is_none
        /\ \A t \in BlockedBucket : t \in Range(ret.error.text)
        /\ \A t \in PiiTypes \ BlockedBucket : t \notin Range(ret.error.text)
        /\ EventsWith("mask") = {}
        /\ kwargs = call.kwargs

\* a block while a mask-policy category is detected in the same request
C2_Witness ==
    /\ call.called
    /\ config.mode = "enforce"
    /\ BlockedBucket # {}
    /\ MaskedBucket # {}
    /\ ~ret.error.is_none

(***************************************************************************)
(* The outgoing payload.                                                   *)
(***************************************************************************)
\* the texts of the messages the hook put under kwargs["messages"]
OutgoingTexts ==
    LET ms == kwargs.messages.value
    IN  UNION {IF ms[i].ctype = "list"
               THEN {ms[i].parts[j].text : j \in 1..Len(ms[i].parts)}
               ELSE {ms[i].text} : i \in 1..Len(ms)}

OutgoingContains(sub) ==
    /\ kwargs.messages.present
    /\ \E t \in OutgoingTexts : Contains(t, sub)

\* masking was performed on the latest request
MaskingPerformed ==
    /\ call.called
    /\ MaskedBucket # {}
    /\ \/ config.mode = "warn"
       \/ config.mode = "enforce" /\ BlockedBucket = {}

\* the matches of the masked categories, with their categories
MaskedMatches ==
    UNION {{[pii_type |-> t, match |-> DictGet(Detected, t)[j]] :
              j \in 1..Len(DictGet(Detected, t))} : t \in MaskedBucket}

\* the match is a span of the request text
InText(m) ==
    /\ m.end <= Len(TextContent)
    /\ m.start < m.end
    /\ Slice(TextContent, m.start, m.end) = m.text

\* no two masked matches share a position
MaskedDisjoint ==
    \A a, b \in MaskedMatches : a # b => (a.match.end <= b.match.start \/ b.match.end <= a.match.start)

(***************************************************************************)
(* C3: whenever masking is performed for a mask-policy category detected   *)
(* in the request text, the outgoing messages contain the placeholder      *)
(* "[REDACTED_<CATEGORY>]" and no longer contain the matched text, for     *)
(* every shape of message list.  Stated here for the requests the          *)
(* redaction engine is meant for: every masked match is a span of the      *)
(* request text and no two masked matches overlap.                         *)
(***************************************************************************)
C3_MaskedPayloadRedacted ==
    (MaskingPerformed /\ MaskedDisjoint /\ \A m \in MaskedMatches : InText(m.match)) =>
        \A m \in MaskedMatches :
            /\ OutgoingContains(Placeholder(m.pii_type))
            /\ ~OutgoingContains(m.match.text)

\* the case of C3 that the code serves: one message holds the whole request text
C3_SingleTextWitness ==
    /\ MaskingPerformed
    /\ MaskedDisjoint
    /\ \A m \in MaskedMatches : InText(m.match)
    /\ Len(call.messages) = 1
    /\ \A m \in MaskedMatches :
          OutgoingContains(Placeholder(m.pii_type)) /\ ~OutgoingContains(m.match.text)

(***************************************************************************)
(* C4: whenever masking is performed, exactly one mask event is emitted    *)
(* per masked category, and its items are the matched texts of that        *)
(* category as detected, before any replacement, also when spans of        *)
(* different categories overlap; they are never the placeholders.          *)
(***************************************************************************)
C4_MaskEventsCarryOriginals ==
    MaskingPerformed =>
        /\ \A t \in MaskedBucket :
              /\ Cardinality(EventsOf("mask", t)) = 1
              /\ \A i \in EventsOf("mask", t) :
                    /\ audit_log[i].items = MatchedTexts(DictGet(Detected, t))
                    /\ \A k \in 1..Len(audit_log[i].items) :
                          /\ "[REDACTED_" \notin Range(audit_log[i].items[k])
                          /\ InText(DictGet(Detected, t)[k]) =>
                                audit_log[i].items[k] =
                                   Slice(TextContent, DictGet(Detected, t)[k].start,
                                         DictGet(Detected, t)[k].end)
        /\ Cardinality(EventsWith("mask")) = Cardinality(MaskedBucket)

\* two masked categories whose spans overlap in the request text
C4_Witness ==
    /\ MaskingPerformed
    /\ ~MaskedDisjoint
    /\ \A m \in MaskedMatches : InText(m.match)
    /\ Cardinality(EventsWith("mask")) = 2

(***************************************************************************)
(* C5: in observe mode the hook emits exactly one observe event for each   *)
(* applicable detected category, block or mask, carrying its matched       *)
(* texts; it emits no other event, never changes the payload and returns   *)
(* the metadata it was given.                                              *)
(***************************************************************************)
C5_ObserveOnlyLogs ==
    (call.called /\ config.mode = "observe") =>
        /\ AllowedUnchanged
        /\ Len(audit_log) = Cardinality(BlockedBucket \cup MaskedBucket)
        /\ \A i \in 1..Len(audit_log) : audit_log[i].action = "observe"
        /\ \A t \in BlockedBucket \cup MaskedBucket :
              /\ Cardinality(EventsOf("observe", t)) = 1
              /\ \A i \in EventsOf("observe", t) :
                    audit_log[i].items = MatchedTexts(DictGet(Detected, t))

\* observe mode with a block category and a mask category, both logged
C5_Witness ==
    /\ call.called
    /\ config.mode = "observe"
    /\ BlockedBucket # {}
    /\ MaskedBucket # {}
    /\ Len(audit_log) = 2

(***************************************************************************)
(* C6: in warn mode the hook emits one warn event per blocked-bucket       *)
(* category and one mask event per masked-bucket category, attaches the    *)
(* warning marker if and only if at least one bucket is non-empty, and     *)
(* leaves the message text unmodified when the masked bucket is empty.     *)
(***************************************************************************)
MarkerAttached ==
    /\ kwargs.extra_headers.kind = "dict"
    /\ <<"X-Ceil-DLP-Warning", "violations_detected">> \in kwargs.extra_headers.entries

C6_WarnEventsAndMarker ==
    (call.called /\ config.mode = "warn") =>
        /\ \A t \in BlockedBucket : Cardinality(EventsOf("warn", t)) = 1
        /\ \A t \in MaskedBucket : Cardinality(EventsOf("mask", t)) = 1
        /\ Len(audit_log) = Cardinality(BlockedBucket) + Cardinality(MaskedBucket)
        /\ MarkerAttached <=> (BlockedBucket \cup MaskedBucket # {})
        /\ MaskedBucket = {} => kwargs.messages = call.kwargs.messages

\* the case of C6 that the code serves: extra_headers is missing or a dict
C6_MarkedWitness ==
    /\ call.called
    /\ config.mode = "warn"
    /\ BlockedBucket # {}
    /\ MaskedBucket = {}
    /\ MarkerAttached
    /\ kwargs.messages = call.kwargs.messages

(***************************************************************************)
(* C7: in every mode a detected category with no policy, a disabled policy *)
(* or a policy that shouldApply rejects for the model causes no audit      *)
(* event, no masking, no warning marker and no block; a request whose      *)
(* detected categories are all of this kind is allowed with its payload    *)
(* unchanged.                                                              *)
(***************************************************************************)
C7_InapplicableIgnored ==
    call.called =>
        /\ \A i \in 1..Len(audit_log) :
              \A t \in Range(audit_log[i].pii_types) : Applicable(t)
        /\ \A t \in PiiTypes :
              ~Applicable(t) =>
                 /\ ~OutgoingContains(<<"[REDACTED_", Upper(t)>>)
                 /\ ret.error.is_none \/ t \notin Range(ret.error.text)
        /\ (\A t \in DetectedTypes : ~Applicable(t)) =>
              /\ AllowedUnchanged
              /\ audit_log = <<>>
              /\ ~MarkerAttached

\* an enforce-mode request whose only detections have an enabled block policy that
\* shouldApply rejects for the model
C7_Witness ==
    /\ call.called
    /\ config.mode = "enforce"
    /\ DetectedTypes # {}
    /\ \A t \in DetectedTypes :
          /\ config.policies[t].present
          /\ config.policies[t].enabled
          /\ config.policies[t].action = "block"
          /\ ~_should_apply_policy(config.policies[t], call.model)
    /\ AllowedUnchanged

(***************************************************************************)
(* C8: when the merged detection map is empty the hook allows the request, *)
(* returns the metadata unchanged and emits no audit event, in each mode.  *)
(***************************************************************************)
C8_NoDetectionShortCircuit ==
    (call.called /\ Detected = <<>>) =>
        /\ AllowedUnchanged
        /\ audit_log = <<>>

\* a request with text in which nothing is detected, under policies that would act
C8_Witness ==
    /\ call.called
    /\ ~call.text_fails
    /\ TextContent # <<>>
    /\ Detected = <<>>
    /\ config.mode = "warn"
    /\ \A t \in PiiTypes : Applicable(t)
    /\ AllowedUnchanged

(***************************************************************************)
(* C9: if an exception is raised inside the engine, also after masked text *)
(* has been written, async_pre_call_hook returns no error message together *)
(* with the request metadata unchanged from what the caller passed in.     *)
(***************************************************************************)
C9_FailOpenLeavesMetadata ==
    (call.called /\ ret.raised) => AllowedUnchanged

\* the case of C9 that the code serves: the exception comes before any write
C9_DetectionRaisedWitness ==
    /\ call.called
    /\ ret.raised
    /\ call.text_fails
    /\ AllowedUnchanged

(***************************************************************************)
(* C10: a failure of detection on one source, the request text or one      *)
(* image, counts as zero detections for that source only; the detections   *)
(* of the remaining sources are still merged, classified and acted on.     *)
(***************************************************************************)
\* the detections of the sources that did not fail
SurvivingDetections ==
    MergeImages(IF TextContent # <<>> /\ ~call.text_fails
                THEN PIIDetector_detect(EnabledTypes(config), config.type_order, TextContent)
                ELSE <<>>,
                _extract_images_from_messages(call.messages),
                config.enabled_pii_types)

SurvivingTypes == Range(DictKeys(SurvivingDetections))

C10_ImageFailedWitness ==
    /\ call.called
    /\ ~call.text_fails
    /\ \E i \in 1..Len(_extract_images_from_messages(call.messages)) :
          _extract_images_from_messages(call.messages)[i].fail
    /\ config.mode = "enforce"
    /\ \E t \in SurvivingTypes : Applicable(t) /\ config.policies[t].action = "block"
    /\ ~ret.error.is_none

(***************************************************************************)
(* Model scoping on its own: a handler whose one policy carries any model  *)
(* rules is asked, for one model identifier after another, whether the     *)
(* policy applies.  call is the question, ret the answer.                  *)
(***************************************************************************)
MaxPatterns == 2

\* identifiers: two that differ in one character, one that is a suffix and one
\* that is a prefix of another
ModelIds ==
    {<<"openai/", "gpt-4">>,
     <<"openai/", "gpt-3", ".", "5">>,
     <<"openai/", "gpt-3", "0", "5">>,
     <<"self-hosted/", "llama2">>,
     <<"gpt-4">>,
     <<"openai/", "gpt-4", "-turbo">>}

\* patterns: identifiers used as patterns, wildcards, and one that does not compile
Patterns ==
    {<<"openai/", "gpt-4">>,
     <<"openai/", "gpt-3", ".", "5">>,
     <<"gpt-4">>,
     <<"openai/", ".*">>,
     <<"self-hosted/", ".*">>,
     <<"[", "openai/", ".*">>}

PatternLists == {NoList} \cup {ListOf(ps) : ps \in SeqsUpTo(Patterns, MaxPatterns)}

ModelRulesChoices ==
    {NoModels} \cup {[present |-> TRUE, allow |-> a, block |-> b] :
                        a \in PatternLists, b \in PatternLists}

PolicyConfigs ==
    {[mode |-> "enforce",
      policies |-> [t \in PiiTypes |->
                      IF t = "email"
                      THEN [present |-> TRUE, action |-> "block", enabled |-> TRUE,
                            models |-> mr]
                      ELSE NoPolicy],
      enabled_pii_types |-> {},
      type_order |-> <<"email", "url">>] : mr \in ModelRulesChoices}

PolicyInit ==
    /\ config \in PolicyConfigs
    /\ call = NoCall
    /\ kwargs = NoCall.kwargs
    /\ ret = [applies |-> FALSE]
    /\ audit_log = <<>>

\* self._should_apply_policy(policy, model) for the policy of the category
ShouldApplyPolicy(model) ==
    /\ call' = [NoCall EXCEPT !.called = TRUE, !.model = model]
    /\ ret' = [applies |-> _should_apply_policy(get_policy(config, "email"), model)]
    /\ UNCHANGED <<config, kwargs, audit_log>>

PolicyNext == \E model \in ModelIds : ShouldApplyPolicy(model)

PolicySpec == PolicyInit /\ [][PolicyNext]_vars

\* the rules of the policy in question, and what matching says of the model asked about
Rules == get_policy(config, "email").models

Compiles(pattern) == "[" \notin Range(pattern)

MatchesSome(list) ==
    \E i \in 1..Len(list.patterns) : matches_model(call.model, list.patterns[i])

\* C11: with a block list and an allow list, the policy applies to every model that
\* matches a block pattern, whether or not it also matches an allow pattern.
C11_BlockOverAllow ==
    (/\ call.called
     /\ Rules.present /\ Rules.block.present /\ Rules.allow.present
     /\ MatchesSome(Rules.block))
        => ret.applies

\* a model that matches both a block pattern and an allow pattern was asked about
C11_Witness ==
    /\ call.called
    /\ Rules.present /\ Rules.block.present /\ Rules.allow.present
    /\ MatchesSome(Rules.block) /\ MatchesSome(Rules.allow)
    /\ ret.applies

\* C12: with an allow list and no block list, the policy is skipped exactly for the
\* models that match an allow pattern and applies to every other model.
C12_AllowOnly ==
    (/\ call.called
     /\ Rules.present /\ Rules.allow.present /\ ~Rules.block.present)
        => (ret.applies <=> ~MatchesSome(Rules.allow))

\* an allow-only policy was asked about a model outside its allow list and applies
C12_Witness ==
    /\ call.called
    /\ Rules.present /\ Rules.allow.present /\ ~Rules.block.present
    /\ Rules.allow.patterns # <<>>
    /\ ~MatchesSome(Rules.allow)
    /\ ret.applies

\* C13: with a block list and no allow list, the policy applies exactly to the models
\* that match a block pattern and is skipped for every other model.
C13_BlockOnly ==
    (/\ call.called
     /\ Rules.present /\ Rules.block.present /\ ~Rules.allow.present)
        => (ret.applies <=> MatchesSome(Rules.block))

\* a block-only policy was asked about a model outside its block list and is skipped
C13_Witness ==
    /\ call.called
    /\ Rules.present /\ Rules.block.present /\ ~Rules.allow.present
    /\ Rules.block.patterns # <<>>
    /\ ~MatchesSome(Rules.block)
    /\ ~ret.applies

\* C14: a policy without a models field applies to every model identifier.
C14_NoModelsAlwaysApplies ==
    (call.called /\ ~Rules.present) => ret.applies

\* a policy without a models field was asked about a self-hosted model
C14_Witness ==
    /\ call.called
    /\ ~Rules.present
    /\ call.model = <<"self-hosted/", "llama2">>
    /\ ret.applies

\* the patterns the policy in question lists
PatternsAsked == Range(Rules.allow.patterns) \cup Range(Rules.block.patterns)

\* a pattern none of whose tokens is special in a regular expression
MetaFree(pattern) == Range(pattern) \cap {".*", ".", "["} = {}

\* the pattern, token by token, against an identifier of its own length
Aligned(model, pattern) ==
    /\ Len(model) = Len(pattern)
    /\ \A i \in 1..Len(pattern) :
          \/ pattern[i] = model[i]
          \/ pattern[i] = "." /\ model[i] \in OneChar

\* a match covers the identifier from its first token to its last: without a
\* wildcard the pattern lines up with the whole identifier, and a pattern that
\* starts or ends with a literal token starts or ends where the identifier does
WholeIdentifier(model, pattern) ==
    /\ ".*" \notin Range(pattern) => Aligned(model, pattern)
    /\ (pattern # <<>> /\ Head(pattern) \notin {".*", "."})
          => (model # <<>> /\ Head(model) = Head(pattern))
    /\ (pattern # <<>> /\ pattern[Len(pattern)] \notin {".*", "."})
          => (model # <<>> /\ model[Len(model)] = pattern[Len(pattern)])

\* the pattern occurs inside the identifier without being all of it
ProperPartOf(pattern, model) ==
    /\ pattern # model
    /\ Contains(model, pattern)

CompiledMatch(list) ==
    \E i \in 1..Len(list.patterns) :
        Compiles(list.patterns[i]) /\ FullMatch(call.model, list.patterns[i])

\* C16: a pattern that does not compile matches no model identifier, and the answer
\* is the one the remaining patterns of the block list and the allow list give.
C16_MalformedPatternIgnored ==
    (call.called /\ \E pattern \in PatternsAsked : ~Compiles(pattern))
        => /\ \A pattern \in PatternsAsked :
                 ~Compiles(pattern) => ~matches_model(call.model, pattern)
           /\ ret.applies <=>
                 (IF CompiledMatch(Rules.block) THEN TRUE
                  ELSE IF CompiledMatch(Rules.allow) THEN FALSE
                  ELSE ~Rules.block.present)

\* the block list starts with a pattern that does not compile, a later pattern of it
\* matches the model asked about, and the policy applies
C16_Witness ==
    /\ call.called
    /\ Len(Rules.block.patterns) > 1
    /\ ~Compiles(Rules.block.patterns[1])
    /\ matches_model(call.model, Rules.block.patterns[2])
    /\ Rules.allow.present
    /\ ret.applies

(***************************************************************************)
(* Text redaction on its own: apply_redaction is given a text and a        *)
(* detection map whose matches are spans of that text.  call is the pair   *)
(* of arguments, ret the pair returned.                                    *)
(***************************************************************************)
MaxTextLen == 3

MaxMatches == 2

Alphabet == <<"a", "b", "c", "d", "e">>

\* one text of every length, of distinct characters
Texts == {SubSeq(Alphabet, 1, n) : n \in 0..MaxTextLen}

\* the matches of a text: every span of it, the empty ones included
MatchesOf(text) ==
    UNION {{[text |-> Slice(text, a, b), start |-> a, end |-> b] : b \in a..Len(text)} :
             a \in 0..Len(text)}

RECURSIVE DictOf(_)
\* the dict that grows as the (pii_type, match) pairs are found in this order
DictOf(found) ==
    IF found = <<>> THEN <<>>
    ELSE LET last == found[Len(found)]
         IN  DictAppend(DictOf(SubSeq(found, 1, Len(found) - 1)), last.pii_type, last.match)

\* the detection maps of a text: up to MaxMatches matches found in any order, and the
\* same with one more category that has an empty list
DetectionMaps(text) ==
    LET found == SeqsUpTo([pii_type : PiiTypes, match : MatchesOf(text)], MaxMatches)
        grown == {DictOf(f) : f \in found}
    IN  grown \cup {Append(d, [key |-> "url", val |-> <<>>]) :
                       d \in {g \in grown : ~DictHas(g, "url")}}

RedactConfig ==
    [mode |-> "enforce", policies |-> [t \in PiiTypes |-> NoPolicy],
     enabled_pii_types |-> {}, type_order |-> <<"email", "url">>]

RedactInit ==
    /\ config = RedactConfig
    /\ \E text \in Texts : \E detections \in DetectionMaps(text) :
          call = [called |-> FALSE, text |-> text, detections |-> detections]
    /\ kwargs = NoCall.kwargs
    /\ ret = [redacted_text |-> <<>>, redacted_items |-> <<>>]
    /\ audit_log = <<>>

\* apply_redaction(text, detections)
ApplyRedaction ==
    /\ ~call.called
    /\ call' = [call EXCEPT !.called = TRUE]
    /\ ret' = apply_redaction(call.text, call.detections)
    /\ UNCHANGED <<config, kwargs, audit_log>>

RedactNext == ApplyRedaction

RedactSpec == RedactInit /\ [][RedactNext]_vars

\* the (pii_type, match) pairs of the map that was passed
Found == AllMatches(call.detections)

\* no two matches share a character: neither reaches into the other
NonOverlapping(found) ==
    \A i, j \in 1..Len(found) :
        i < j => ~(/\ found[i].match.start < found[j].match.end
                   /\ found[j].match.start < found[i].match.end)

NonEmpty(found) == \A i \in 1..Len(found) : found[i].match.start < found[i].match.end

\* the orders in which the same pairs can be found
Orders(found) ==
    LET n == Len(found)
    IN  {[i \in 1..n |-> found[f[i]]] :
           f \in {g \in [1..n -> 1..n] : \A i, j \in 1..n : i # j => g[i] # g[j]}}

\* left to right: no pair starts before the one before it has ended
LeftToRight(order) ==
    \A i \in 1..(Len(order) - 1) : order[i].match.end <= order[i + 1].match.start

RECURSIVE Rendered(_, _, _)
\* the text from pos on, with the spans of order, which lie left to right from pos
\* on, replaced by the placeholders of their categories
Rendered(text, pos, order) ==
    IF order = <<>> THEN SliceFrom(text, pos)
    ELSE Slice(text, pos, Head(order).match.start)
         \o Placeholder(Head(order).pii_type)
         \o Rendered(text, Head(order).match.end, Tail(order))

\* every span replaced by its placeholder, everything else in place
SpansReplaced ==
    \E order \in Orders(Found) :
        LeftToRight(order) /\ ret.redacted_text = Rendered(call.text, 0, order)

\* the same text whatever the order of the categories and of the matches
OrderIndependent ==
    \A order \in Orders(Found) :
        apply_redaction(call.text, DictOf(order)).redacted_text = ret.redacted_text

\* C17 (as claimed): for pairwise non-overlapping matches the returned text has every
\* span replaced by the placeholder of its category and everything outside the spans
\* in place, and is the same for every insertion order.
C17_NonOverlappingRedacted ==
    (call.called /\ NonOverlapping(Found)) => (SpansReplaced /\ OrderIndependent)

\* C17 (amended): the same for matches that are non-empty and pairwise
\* non-overlapping.
C17_NonEmptyNonOverlappingRedacted ==
    (call.called /\ NonEmpty(Found) /\ NonOverlapping(Found))
        => (SpansReplaced /\ OrderIndependent)

\* two matches of different categories, the one inserted first lying to the left of
\* the other, with text before, between and after them, were redacted
C17_Witness ==
    /\ call.called
    /\ NonEmpty(Found) /\ NonOverlapping(Found)
    /\ Len(Found) = 2
    /\ Found[1].pii_type # Found[2].pii_type
    /\ Found[1].match.end <= Found[2].match.start
    /\ ret.redacted_text # call.text
    /\ SpansReplaced

(***************************************************************************)
(* Document redaction on its own: redact_pdf is given a document.  A page  *)
(* stands for what happens to it: whether pdf[page_num] loads it, whether  *)
(* it renders, and whether redact_image redacts its rendering ("ok"),      *)
(* fails inside and hands back the rendering as it was ("original"), or    *)
(* the redacted bytes cannot be had or opened ("raises").  An output page  *)
(* is the rendering of an input page, redacted or not.  call is the        *)
(* argument, ret what redact_pdf returned and the renderings it asked for. *)
(***************************************************************************)
MaxPages == 3

PageChoices ==
    {[loads |-> FALSE, renders |-> TRUE, redact |-> "ok"],
     [loads |-> TRUE, renders |-> FALSE, redact |-> "ok"],
     [loads |-> TRUE, renders |-> TRUE, redact |-> "ok"],
     [loads |-> TRUE, renders |-> TRUE, redact |-> "original"],
     [loads |-> TRUE, renders |-> TRUE, redact |-> "raises"]}

\* what detect_pii_in_pdf reports on a document with sensitive data
SomeDetections ==
    <<[key |-> "email", val |-> <<[text |-> <<"j@", "x.com">>, start |-> 0, end |-> 2]>>]>>

\* the documents: bytes or a path; a document that opens or not, with or without
\* sensitive data, whose pages can be stitched or not; and an argument of another type
PdfInputs ==
    [kind : {"bytes", "path"}, opens : BOOLEAN, detections : {<<>>, SomeDetections},
     pages : SeqsUpTo(PageChoices, MaxPages), saves : BOOLEAN]
    \cup {[kind |-> "other", opens |-> FALSE, detections |-> <<>>, pages |-> <<>>,
            saves |-> FALSE]}

\* detect_pii_in_pdf(pdf_data, enabled_types)
detect_pii_in_pdf(pdf_data) == pdf_data.detections

NoPage == [bound |-> FALSE, num |-> 0]

\* the except branch of one page: render whatever page names, or skip
PageFallback(pdf, page, acc) ==
    IF ~page.bound THEN acc
    ELSE LET renders == Append(acc.renders, page.num)
         IN  IF pdf.pages[page.num + 1].renders
             THEN [acc EXCEPT !.renders = renders,
                              !.redacted_pages = Append(acc.redacted_pages,
                                                   [src |-> page.num, redacted |-> FALSE])]
             ELSE [acc EXCEPT !.renders = renders]

\* the loop body as it would be if a page whose redaction failed were left out
PageStep_DropsUnredacted(pdf, page_num, acc) ==
    LET p == pdf.pages[page_num + 1]
        loaded == [bound |-> TRUE, num |-> page_num]
    IN  IF ~p.loads THEN PageFallback(pdf, acc.page, acc)
        ELSE LET got == [acc EXCEPT !.page = loaded,
                                    !.renders = Append(acc.renders, page_num)]
             IN  IF ~p.renders THEN PageFallback(pdf, loaded, got)
                 ELSE IF p.redact # "ok" THEN got
                 ELSE [got EXCEPT !.redacted_pages =
                           Append(got.redacted_pages,
                                  [src |-> page_num, redacted |-> TRUE])]

\* one pass of the loop body; acc.page is the variable page, which outlives the pass
PageStep(pdf, page_num, acc) ==
    LET p == pdf.pages[page_num + 1]
        loaded == [bound |-> TRUE, num |-> page_num]
    IN  IF ~p.loads THEN PageFallback(pdf, acc.page, acc)
        ELSE LET got == [acc EXCEPT !.page = loaded,
                                    !.renders = Append(acc.renders, page_num)]
             IN  IF ~p.renders THEN PageFallback(pdf, loaded, got)
                 ELSE IF p.redact = "raises" THEN PageFallback(pdf, loaded, got)
                 ELSE [got EXCEPT !.redacted_pages =
                           Append(got.redacted_pages,
                                  [src |-> page_num, redacted |-> p.redact = "ok"])]

RECURSIVE PageLoop(_, _, _)
\* for page_num in range(len(pdf)), from page_num on
PageLoop(pdf, page_num, acc) ==
    IF page_num >= Len(pdf.pages) THEN acc
    ELSE PageLoop(pdf, page_num + 1, PageStep(pdf, page_num, acc))

Original == [kind |-> "original", pages |-> <<>>]

PdfOutcome(raised, output, renders) ==
    [raised |-> raised, output |-> output, renders |-> renders]

\* redact_pdf without the return on an empty detection map
redact_pdf_NoFastPath(pdf_data) ==
    IF pdf_data.kind = "other" THEN PdfOutcome(TRUE, Original, <<>>)
    ELSE IF ~pdf_data.opens THEN PdfOutcome(FALSE, Original, <<>>)
    ELSE LET done == PageLoop(pdf_data, 0,
                              [page |-> NoPage, redacted_pages |-> <<>>, renders |-> <<>>])
         IN  IF done.redacted_pages = <<>> THEN PdfOutcome(FALSE, Original, done.renders)
             ELSE IF ~pdf_data.saves THEN PdfOutcome(FALSE, Original, done.renders)
             ELSE PdfOutcome(FALSE, [kind |-> "stitched", pages |-> done.redacted_pages],
                             done.renders)

\* redact_pdf stitching whatever the loop produced, were it nothing, and keeping what
\* was written when the stitch fails
redact_pdf_PartialOutput(pdf_data) ==
    IF pdf_data.kind = "other" THEN PdfOutcome(TRUE, Original, <<>>)
    ELSE IF ~pdf_data.opens THEN PdfOutcome(FALSE, Original, <<>>)
    ELSE IF detect_pii_in_pdf(pdf_data) = <<>> THEN PdfOutcome(FALSE, Original, <<>>)
    ELSE LET done == PageLoop(pdf_data, 0,
                              [page |-> NoPage, redacted_pages |-> <<>>, renders |-> <<>>])
         IN  IF ~pdf_data.saves
             THEN PdfOutcome(FALSE, [kind |-> "stitched", pages |-> <<>>], done.renders)
             ELSE PdfOutcome(FALSE, [kind |-> "stitched", pages |-> done.redacted_pages],
                             done.renders)

redact_pdf(pdf_data) ==
    IF pdf_data.kind = "other" THEN PdfOutcome(TRUE, Original, <<>>)
    ELSE IF ~pdf_data.opens THEN PdfOutcome(FALSE, Original, <<>>)
    ELSE IF detect_pii_in_pdf(pdf_data) = <<>> THEN PdfOutcome(FALSE, Original, <<>>)
    ELSE LET done == PageLoop(pdf_data, 0,
                              [page |-> NoPage, redacted_pages |-> <<>>, renders |-> <<>>])
         IN  IF done.redacted_pages = <<>> THEN PdfOutcome(FALSE, Original, done.renders)
             ELSE IF ~pdf_data.saves THEN PdfOutcome(FALSE, Original, done.renders)
             ELSE PdfOutcome(FALSE, [kind |-> "stitched", pages |-> done.redacted_pages],
                             done.renders)

PdfInit ==
    /\ config = RedactConfig
    /\ \E pdf_data \in PdfInputs : call = [called |-> FALSE, pdf_data |-> pdf_data]
    /\ kwargs = NoCall.kwargs
    /\ ret = PdfOutcome(FALSE, Original, <<>>)
    /\ audit_log = <<>>

\* redact_pdf(pdf_data)
RedactPdf ==
    /\ ~call.called
    /\ call' = [call EXCEPT !.called = TRUE]
    /\ ret' = redact_pdf(call.pdf_data)
    /\ UNCHANGED <<config, kwargs, audit_log>>

PdfNext == RedactPdf

PdfSpec == PdfInit /\ [][PdfNext]_vars

\* the document passed, the page numbers of it, and the pages of the new document
Doc == call.pdf_data

PageNums == 0..(Len(Doc.pages) - 1)

OutPages == ret.output.pages

\* C18: a document in which nothing is detected comes back as the input bytes, and
\* no page of it is rendered or stitched.
C18_NoDetectionsNoOp ==
    (call.called /\ Doc.kind # "other" /\ detect_pii_in_pdf(Doc) = <<>>)
        => /\ ~ret.raised
           /\ ret.output = Original
           /\ ret.renders = <<>>

\* a document that opens, has pages that would render and can be stitched, and in
\* which nothing is detected, came back as it was
C18_Witness ==
    /\ call.called
    /\ Doc.kind = "bytes" /\ Doc.opens /\ Doc.saves
    /\ detect_pii_in_pdf(Doc) = <<>>
    /\ Len(Doc.pages) > 1
    /\ \A n \in PageNums : Doc.pages[n + 1].loads /\ Doc.pages[n + 1].renders
    /\ ret.output = Original

\* C19: the pages of a new document come from distinct input pages, in the order of
\* the input, whatever pages fail to load, render or redact.
C19_OutputPagesDistinctInOrder ==
    (call.called /\ ret.output.kind = "stitched")
        => \A i, j \in 1..Len(OutPages) : i < j => OutPages[i].src < OutPages[j].src

\* the same document with the redaction of page n succeeding
WithRedacted(pdf, n) == [pdf EXCEPT !.pages[n + 1].redact = "ok"]

\* C20: a rendered page whose redaction fails is in the new document unredacted, at
\* its own position, and the rest of the document is what it would be had the
\* redaction of that page succeeded.
C20_UnredactedFallbackInPlace ==
    (call.called /\ ret.output.kind = "stitched")
        => \A n \in PageNums :
             (/\ Doc.pages[n + 1].loads
              /\ Doc.pages[n + 1].renders
              /\ Doc.pages[n + 1].redact # "ok")
                => LET other == redact_pdf(WithRedacted(Doc, n)).output.pages
                   IN  /\ Len(other) = Len(OutPages)
                       /\ \E i \in 1..Len(OutPages) :
                             /\ OutPages[i] = [src |-> n, redacted |-> FALSE]
                             /\ other[i] = [src |-> n, redacted |-> TRUE]
                             /\ \A j \in 1..Len(OutPages) :
                                   /\ j # i => OutPages[j] = other[j]
                                   /\ j < i => OutPages[j].src < n
                                   /\ j > i => OutPages[j].src >= n

\* a three-page document whose middle page rendered and could not be redacted came
\* out with three pages, the first and the last redacted, the middle one not
C20_Witness ==
    /\ call.called
    /\ Len(Doc.pages) = 3
    /\ Doc.pages[2].loads /\ Doc.pages[2].renders /\ Doc.pages[2].redact = "raises"
    /\ ret.output.kind = "stitched"
    /\ OutPages = <<[src |-> 0, redacted |-> TRUE], [src |-> 1, redacted |-> FALSE],
                    [src |-> 2, redacted |-> TRUE]>>

\* the page numbers of the pages that load and render
RenderedNums == {n \in PageNums : Doc.pages[n + 1].loads /\ Doc.pages[n + 1].renders}

\* C21: the new document holds one page for every input page that rendered and none
\* for a page that did not: as many pages as rendered, each from a page that rendered,
\* and every page that rendered among them.
C21_OnlyUnrenderedOmitted ==
    (call.called /\ ret.output.kind = "stitched")
        => /\ Len(OutPages) = Cardinality(RenderedNums)
           /\ {OutPages[i].src : i \in 1..Len(OutPages)} = RenderedNums

\* C22: when no page is processed, or the stitch fails, the input bytes come back:
\* never an empty or a partial document.
C22_OriginalOnWholeFailure ==
    (/\ call.called
     /\ Doc.kind # "other"
     /\ RenderedNums = {} \/ ~Doc.saves \/ ~Doc.opens)
        => /\ ~ret.raised
           /\ ret.output = Original

\* a document with detections, none of whose pages loads and renders, went through
\* the page loop and came back as it was
C22_NoPageWitness ==
    /\ call.called
    /\ Doc.kind = "bytes" /\ Doc.opens /\ Doc.saves
    /\ detect_pii_in_pdf(Doc) # <<>>
    /\ Len(Doc.pages) > 1
    /\ RenderedNums = {}
    /\ ret.renders # <<>>
    /\ ret.output = Original

(***************************************************************************)
(* Setting up: setup_litellm builds the settings of the callback from its  *)
(* arguments and the environment, and create_handler builds the handler    *)
(* from those settings, in the same environment.  call holds the           *)
(* arguments, the environment and how far the set-up has come, ret the     *)
(* settings and config the configuration of the handler.                   *)
(***************************************************************************)
\* CEIL_DLP_MODE, when set
EnvModes == {"absent", "observe", "warn", "enforce"}

\* the file at config_path: no such file, a file without a mode, a file with one
YamlFiles == {[exists |-> FALSE, mode |-> "absent"],
              [exists |-> TRUE, mode |-> "absent"],
              [exists |-> TRUE, mode |-> "observe"]}

ExtraKwargs == {<<>>, <<[key |-> "audit_log_path", val |-> "audit.log"]>>}

SetupInputs ==
    [mode : {"None"} \cup Modes, config_path : {"None"}, yaml : {[exists |-> FALSE, mode |-> "absent"]},
     kwargs : ExtraKwargs, env : EnvModes]
    \cup [mode : {"None"} \cup Modes, config_path : {"ceil-dlp.yaml"}, yaml : YamlFiles,
          kwargs : {<<>>}, env : EnvModes]

\* the default of Config.mode: CEIL_DLP_MODE, or "enforce"
ConfigDefaultMode(env) == IF env = "absent" THEN "enforce" ELSE env

\* Config.from_dict(data).mode
ConfigFromDictMode(data, env) ==
    IF DictHas(data, "mode") THEN DictGet(data, "mode") ELSE ConfigDefaultMode(env)

\* os.getenv("CEIL_DLP_MODE", "enforce")
GetenvMode(env) == IF env = "absent" THEN "enforce" ELSE env

\* setup_litellm(mode, config_path, **kwargs); an empty callback_params is left out
\* of the result
setup_litellm(mode, config_path, kw, env) ==
    LET m == IF mode = "None" THEN GetenvMode(env) ELSE mode
        callback_params ==
            IF config_path # "None" THEN <<[key |-> "config_path", val |-> config_path]>>
            ELSE IF kw # <<>> \/ m # "enforce"
                 THEN (IF m # "enforce" THEN <<[key |-> "mode", val |-> m]>> ELSE <<>>) \o kw
                 ELSE <<>>
    IN  [custom_callback |-> "ceil_dlp.CeilDLPHandler", custom_callback_params |-> callback_params]

\* create_handler(**custom_callback_params): the mode of the handler's configuration
create_handler(params, yaml, env) ==
    LET rest == SelectSeq(params, LAMBDA e : e.key # "config_path")
    IN  IF DictHas(params, "config_path") /\ yaml.exists
        THEN (IF yaml.mode = "absent" THEN ConfigDefaultMode(env) ELSE yaml.mode)
        ELSE IF rest # <<>> THEN ConfigFromDictMode(rest, env)
        ELSE ConfigDefaultMode(env)

NoSettings == [custom_callback |-> "None", custom_callback_params |-> <<>>]

SetupInit ==
    /\ config = [mode |-> "None"]
    /\ \E in \in SetupInputs : call = [pc |-> "start", args |-> in]
    /\ kwargs = NoCall.kwargs
    /\ ret = NoSettings
    /\ audit_log = <<>>

SetupLitellm ==
    /\ call.pc = "start"
    /\ call' = [call EXCEPT !.pc = "configured"]
    /\ ret' = setup_litellm(call.args.mode, call.args.config_path, call.args.kwargs,
                            call.args.env)
    /\ UNCHANGED <<config, kwargs, audit_log>>

CreateHandler ==
    /\ call.pc = "configured"
    /\ call' = [call EXCEPT !.pc = "constructed"]
    /\ config' = [mode |-> create_handler(ret.custom_callback_params, call.args.yaml,
                                          call.args.env)]
    /\ UNCHANGED <<kwargs, ret, audit_log>>

SetupNext == SetupLitellm \/ CreateHandler

SetupSpec == SetupInit /\ [][SetupNext]_vars

\* C24: without config_path the handler's mode is the mode argument when one is
\* given, otherwise CEIL_DLP_MODE, otherwise "enforce".
C24_ModeArgumentWins ==
    (call.pc = "constructed" /\ call.args.config_path = "None")
        => config.mode = (IF call.args.mode # "None" THEN call.args.mode
                          ELSE IF call.args.env # "absent" THEN call.args.env
                          ELSE "enforce")

(***************************************************************************)
(* Two requests in one handler.  Each request runs the hook in its own     *)
(* thread: it detects, decides, hands its audit events to the sink one at  *)
(* a time and returns, and the other request may run between any two of    *)
(* these steps.  The handler's fields (config, detector) are only read.    *)
(* call.procs[p] holds the request of thread p, how far it has come and    *)
(* its local variables; call.latest is the thread that detected last.      *)
(* kwargs[p] and ret[p] are what thread p's caller gets back; audit_log is *)
(* the one sink.                                                           *)
(***************************************************************************)
Procs == {1, 2}

UserOf(p) == IF p = 1 THEN "user1" ELSE "user2"

ConcPolicies ==
    {[present |-> TRUE, action |-> "block", enabled |-> TRUE, models |-> NoModels],
     [present |-> TRUE, action |-> "mask", enabled |-> TRUE, models |-> NoModels]}

ConcConfigs ==
    [mode : Modes, policies : [PiiTypes -> ConcPolicies], enabled_pii_types : {{}},
     type_order : {<<"email", "url">>}]

\* the requests of thread p: an address (also a URL), a URL only, or no sensitive data
ConcRequests(p) ==
    {[user_id |-> UserOf(p), model |-> <<"openai/", "gpt-4">>, messages |-> <<m>>,
      kwargs |-> kw, text_fails |-> f] :
        m \in {DictStr(<<"j@", "x.com">>), DictStr(<<"x.com">>), DictStr(<<"w">>)},
        kw \in {[litellm_call_id |-> UserOf(p), messages |-> NoMessages,
                 extra_headers |-> NoHeaders]},
        f \in BOOLEAN}

NoLocals ==
    [detections |-> <<>>, raised |-> FALSE,
     out |-> Outcome(FALSE, NoError, FALSE, NoCall.kwargs, <<>>), pending |-> <<>>]

ConcInit ==
    /\ config \in ConcConfigs
    /\ \E r1 \in ConcRequests(1) : \E r2 \in ConcRequests(2) :
          call = [procs |-> [p \in Procs |->
                               [pc |-> "start", req |-> IF p = 1 THEN r1 ELSE r2,
                                locals |-> NoLocals]],
                  latest |-> 1]
    /\ kwargs = [p \in Procs |-> NoCall.kwargs]
    /\ ret = [p \in Procs |-> [raised |-> FALSE, error |-> NoError, ret_none |-> FALSE]]
    /\ audit_log = <<>>

\* the request of thread p as the hook sees it
ConcReq(p) == WithOrder(config, call.procs[p].req)

\* the detections the decision of thread p is taken on, as they would be if the hook
\* kept them in a field of the handler
DetectionsOf_HandlerField(p) == call.procs[call.latest].locals.detections

\* the detections the decision of thread p is taken on: its local variable
DetectionsOf(p) == call.procs[p].locals.detections

\* text extraction, detection and the merge of the image detections
Detect(p) ==
    /\ call.procs[p].pc = "start"
    /\ call' = [call EXCEPT
                  !.latest = p,
                  !.procs[p].pc = "detected",
                  !.procs[p].locals.raised = TextDetectionRaises(config, ConcReq(p)),
                  !.procs[p].locals.detections =
                      IF TextDetectionRaises(config, ConcReq(p)) THEN <<>>
                      ELSE MergedDetections(config, ConcReq(p))]
    /\ UNCHANGED <<config, kwargs, ret, audit_log>>

\* classification and the branch of the mode, up to the first call of the sink
Decide(p) ==
    /\ call.procs[p].pc = "detected"
    /\ LET out == IF call.procs[p].locals.raised
                  THEN Outcome(TRUE, NoError, FALSE, ConcReq(p).kwargs, <<>>)
                  ELSE Dispatch(config, ConcReq(p),
                                _extract_text_from_messages(ConcReq(p).messages),
                                DetectionsOf(p))
       IN  call' = [call EXCEPT !.procs[p].pc = "logging",
                                !.procs[p].locals.out = out,
                                !.procs[p].locals.pending = out.events]
    /\ UNCHANGED <<config, kwargs, ret, audit_log>>

\* one call of audit_logger.log_detection or log_block
LogEvent(p) ==
    /\ call.procs[p].pc = "logging"
    /\ call.procs[p].locals.pending # <<>>
    /\ audit_log' = Append(audit_log, Head(call.procs[p].locals.pending))
    /\ call' = [call EXCEPT !.procs[p].locals.pending = Tail(@)]
    /\ UNCHANGED <<config, kwargs, ret>>

\* the return of async_pre_call_hook
Return(p) ==
    /\ call.procs[p].pc = "logging"
    /\ call.procs[p].locals.pending = <<>>
    /\ LET out == call.procs[p].locals.out
       IN  /\ kwargs' = [kwargs EXCEPT ![p] = out.kwargs]
           /\ ret' = [ret EXCEPT ![p] =
                        IF out.raised
                        THEN [raised |-> TRUE, error |-> NoError, ret_none |-> FALSE]
                        ELSE [raised |-> FALSE, error |-> out.error,
                              ret_none |-> out.ret_none]]
    /\ call' = [call EXCEPT !.procs[p].pc = "done"]
    /\ UNCHANGED <<config, audit_log>>

ConcNext == \E p \in Procs : Detect(p) \/ Decide(p) \/ LogEvent(p) \/ Return(p)

ConcSpec == ConcInit /\ [][ConcNext]_vars

\* the events of the sink that belong to the request of thread p, in order
EventsFor(p) == SelectSeq(audit_log, LAMBDA ev : ev.user_id = UserOf(p))

\* C23: whatever the interleaving, a request that has returned has the decision, the
\* outgoing payload and the audit events it has when it is processed alone.
C23_InterleavingIndependent ==
    \A p \in Procs :
        call.procs[p].pc = "done"
            => LET alone == async_pre_call_hook(config, ConcReq(p))
               IN  /\ ret[p] = [raised |-> alone.raised, error |-> alone.error,
                                ret_none |-> alone.ret_none]
                   /\ kwargs[p] = alone.kwargs
                   /\ EventsFor(p) = alone.events

\* both requests, of different content, have returned, and an event of the second
\* lies between two events of the first in the sink
C23_Witness ==
    /\ \A p \in Procs : call.procs[p].pc = "done"
    /\ call.procs[1].req.messages # call.procs[2].req.messages
    /\ \E i, j, k \in 1..Len(audit_log) :
          /\ i < j /\ j < k
          /\ audit_log[i].user_id = "user1"
          /\ audit_log[j].user_id = "user2"
          /\ audit_log[k].user_id = "user1"

(***************************************************************************)
(* Image redaction on its own: redact_image is given an image and a list   *)
(* of categories.  An image stands for the regions the image analyser      *)
(* finds in it, each of one category, and for whether the redactor fails   *)
(* on it.  call is the pair of arguments; ret says whether redact_image    *)
(* raised and which regions of the returned image are filled.              *)
(***************************************************************************)
Regions == {[pii_type |-> "email", box |-> 1], [pii_type |-> "url", box |-> 2],
            [pii_type |-> "email", box |-> 3]}

\* image_data: a PIL image, bytes, a path, or a value of another type
ImageInputs ==
    [kind : {"pil", "bytes", "path", "other"}, regions : SUBSET Regions, fails : BOOLEAN]

\* pii_types: None or a list
PiiTypesArgs == {"None", <<>>, <<"email">>, <<"url">>, <<"email", "url">>}

redact_image(image_data, pii_types) ==
    IF image_data.kind = "other" THEN [raised |-> TRUE, filled |-> {}]
    ELSE IF image_data.fails THEN [raised |-> FALSE, filled |-> {}]
    ELSE [raised |-> FALSE, filled |-> image_data.regions]

RedactImageInit ==
    /\ config = RedactConfig
    /\ \E image_data \in ImageInputs : \E pii_types \in PiiTypesArgs :
          call = [called |-> FALSE, image_data |-> image_data, pii_types |-> pii_types]
    /\ kwargs = NoCall.kwargs
    /\ ret = [raised |-> FALSE, filled |-> {}]
    /\ audit_log = <<>>

\* redact_image(image_data, pii_types)
RedactImage ==
    /\ ~call.called
    /\ call' = [call EXCEPT !.called = TRUE]
    /\ ret' = redact_image(call.image_data, call.pii_types)
    /\ UNCHANGED <<config, kwargs, audit_log>>

RedactImageNext == RedactImage

RedactImageSpec == RedactImageInit /\ [][RedactImageNext]_vars

\* C25: with a non-empty list of categories exactly the regions of the listed
\* categories are filled; with None every region is.
C25_OnlyListedTypesRedacted ==
    (call.called /\ call.image_data.kind # "other" /\ ~call.image_data.fails)
        => ret.filled =
             (IF call.pii_types = "None" \/ call.pii_types = <<>>
              THEN call.image_data.regions
              ELSE {r \in call.image_data.regions : r.pii_type \in Range(call.pii_types)})

\* a match that is a span of the request text holding the matched text
WellLocated(m) ==
    /\ m.start <= m.end
    /\ m.end <= Len(TextContent)
    /\ Slice(TextContent, m.start, m.end) = m.text

\* C26: every match handed to apply_redaction with the request text is a span of that
\* text that holds the match's text, also with image detections merged in.
C26_MaskedMatchesLocatedInText ==
    MaskingPerformed => \A m \in MaskedMatches : WellLocated(m.match)

(***************************************************************************)
(* Text replacement on its own: _replace_text_in_messages is given a list  *)
(* of messages, the text to look for and the text to put in its place.     *)
(* call holds the arguments, ret the list returned.                        *)
(***************************************************************************)
OldTexts == {<<"x.com">>, <<"j@", "x.com">>, <<"w">>, <<>>}

NewTexts == {Placeholder("email"), <<>>}

ReplaceInit ==
    /\ config = RedactConfig
    /\ \E messages \in MessageLists : \E old_text \in OldTexts : \E new_text \in NewTexts :
          call = [called |-> FALSE, messages |-> messages, old_text |-> old_text,
                  new_text |-> new_text]
    /\ kwargs = NoCall.kwargs
    /\ ret = [modified |-> <<>>]
    /\ audit_log = <<>>

\* self._replace_text_in_messages(messages, old_text, new_text)
ReplaceTextInMessages ==
    /\ ~call.called
    /\ call' = [call EXCEPT !.called = TRUE]
    /\ ret' = [modified |->
                 _replace_text_in_messages(call.messages, call.old_text, call.new_text)]
    /\ UNCHANGED <<config, kwargs, audit_log>>

ReplaceNext == ReplaceTextInMessages

ReplaceSpec == ReplaceInit /\ [][ReplaceNext]_vars

\* what the text s is after the replacement
Replaced(s) == Replace(s, call.old_text, call.new_text)

\* the entry returned for a message object: the same keys, the same content type, a
\* string content replaced, the parts of a list content in place, the text parts
\* replaced and the other parts as they were
SameShape(msg, out) ==
    /\ out.kind = "dict"
    /\ out.role = msg.role
    /\ out.ctype = msg.ctype
    /\ msg.ctype = "str" => out.text = Replaced(msg.text)
    /\ msg.ctype = "none" => out = msg
    /\ Len(out.parts) = Len(msg.parts)
    /\ \A i \in 1..Len(msg.parts) :
          IF msg.parts[i].type = "text"
          THEN out.parts[i] = [msg.parts[i] EXCEPT !.text = Replaced(msg.parts[i].text)]
          ELSE out.parts[i] = msg.parts[i]

\* the entry returned for a bare string: a message object whose only key is the content
FromString(msg, out) ==
    /\ out.kind = "dict"
    /\ out.role = "absent"
    /\ out.ctype = "str"
    /\ out.text = Replaced(msg.text)

\* C27: the list returned has an entry for every message, in order; a message object
\* keeps its other keys and its non-text parts in place, and a bare string becomes a
\* message object that holds the replaced text.
C27_ReplaceKeepsStructure ==
    call.called =>
        /\ Len(ret.modified) = Len(call.messages)
        /\ \A i \in 1..Len(call.messages) :
              IF call.messages[i].kind = "dict"
              THEN SameShape(call.messages[i], ret.modified[i])
              ELSE FromString(call.messages[i], ret.modified[i])

\* a bare string and a multi-part message with image parts, both holding the text
\* looked for, came back changed
C27_Witness ==
    /\ call.called
    /\ Len(call.messages) = 2
    /\ call.messages[1].kind = "str"
    /\ call.messages[2].kind = "dict" /\ call.messages[2].ctype = "list"
    /\ \E i \in 1..Len(call.messages[2].parts) : call.messages[2].parts[i].type # "text"
    /\ call.old_text = <<"x.com">>
    /\ ret.modified[1].text = call.new_text
    /\ ret.modified[2] # call.messages[2]

(***************************************************************************)
(* A handler whose configuration holds a mode that is none of the three:   *)
(* the same hook, constructed with such a configuration or with "enforce". *)
(***************************************************************************)
\* a mode string that is not one of the three
UnknownMode == "audit"

UnknownModeConfigs ==
    [mode : {UnknownMode, "enforce"},
     policies : [PiiTypes -> PolicyChoices],
     enabled_pii_types : {{}},
     type_order : {<<"email", "url">>}]

UnknownModeInit ==
    /\ config \in UnknownModeConfigs
    /\ call = NoCall
    /\ kwargs = NoCall.kwargs
    /\ ret = [raised |-> FALSE, error |-> NoError, ret_none |-> FALSE]
    /\ audit_log = <<>>

UnknownModeSpec == UnknownModeInit /\ [][Next]_vars

\* the events with the mode they record left out
WithoutMode(events) ==
    [i \in 1..Len(events) |-> [events[i] EXCEPT !.mode = "enforce"]]

\* C28: under a mode other than "observe" and "warn" the hook does what it does under
\* "enforce": the same decision, the same outgoing payload and the same events, which
\* differ only in the mode string they record.
C28_OtherModeIsEnforce ==
    (call.called /\ config.mode \notin {"observe", "warn"})
        => LET enforce == async_pre_call_hook([config EXCEPT !.mode = "enforce"], Req)
           IN  /\ ret = [raised |-> enforce.raised, error |-> enforce.error,
                         ret_none |-> enforce.ret_none]
               /\ kwargs = enforce.kwargs
               /\ WithoutMode(audit_log) = WithoutMode(enforce.events)

\* under the unknown mode a request was blocked
C28_BlockedWitness ==
    /\ call.called
    /\ config.mode = UnknownMode
    /\ ~ret.error.is_none
    /\ EventsWith("block") # {}

\* under the unknown mode a request was masked
C28_MaskedWitness ==
    /\ call.called
    /\ config.mode = UnknownMode
    /\ ret.error.is_none
    /\ EventsWith("mask") # {}
    /\ kwargs.messages.present

\* the entries of the caller's extra_headers under other names than the warning's
OtherHeaders(headers) == {e \in headers.entries : e[1] # "X-Ceil-DLP-Warning"}

\* C29: the hook leaves the caller's message list and its messages as they were; when it
\* masks, the redacted messages are stored under kwargs["messages"], one per input
\* message; on an allowed request every key of kwargs other than "messages" and
\* "extra_headers" is as the caller passed it, and the entries the caller had in
\* "extra_headers" are still there.
C29_MaskingLeavesInputAndOtherKeys ==
    call.called
        => /\ call.caller_messages = call.messages
           /\ MaskingPerformed
                 => /\ kwargs.messages.present
                    /\ Len(kwargs.messages.value) = Len(call.messages)
           /\ ret.error.is_none
                 => /\ kwargs.litellm_call_id = call.kwargs.litellm_call_id
                    /\ ~MaskingPerformed => kwargs.messages = call.kwargs.messages
                    /\ OtherHeaders(call.kwargs.extra_headers)
                          \subseteq kwargs.extra_headers.entries
                    /\ kwargs.extra_headers.entries
                          \subseteq OtherHeaders(call.kwargs.extra_headers)
                               \cup {<<"X-Ceil-DLP-Warning", "violations_detected">>}

\* a request with headers of its own was masked in warn mode: the stored messages differ
\* from the caller's and the warning went into the caller's headers
C29_Witness ==
    /\ MaskingPerformed
    /\ config.mode = "warn"
    /\ kwargs.messages.value # call.messages
    /\ call.kwargs.extra_headers.entries # {}
    /\ <<"X-Ceil-DLP-Warning", "violations_detected">> \in kwargs.extra_headers.entries

\* the policy of the category with its block list taken away
WithoutBlockList ==
    [get_policy(config, "email") EXCEPT !.models.block = NoList]

====
